---------------------------- MODULE Spec2Model ----------------------------
(***************************************************************************)
(* rench: an HTTP load tester.  The module models                         *)
(*   - src/src/main.rs: the dispatcher (main, make_requests) and the      *)
(*     Summary the binary prints;                                         *)
(*   - src/src/stats.rs: Summary::from_facts with percentiles/histogram;  *)
(*   - src/src/content_length.rs: ContentLength and its Display.          *)
(* Rust's f64 arithmetic is modelled bit-exactly (IEEE-754 binary64,      *)
(* round to nearest, ties to even) on arbitrary-precision naturals,       *)
(* because the bucket and percentile indices are truncated f64 values.    *)
(***************************************************************************)
EXTENDS Integers, Sequences, FiniteSets

(***************************************************************************)
(* Arbitrary-precision naturals: little-endian sequences of limbs below   *)
(* Base, without leading zero limbs (<<>> is 0).  They carry the 53-bit   *)
(* significands of f64 values, which do not fit 32-bit integers.         *)
(***************************************************************************)
LimbBits == 15

Base == 2 ^ LimbBits

RECURSIVE BigFromNat(_)
BigFromNat(n) ==
    IF n = 0 THEN <<>> ELSE <<n % Base>> \o BigFromNat(n \div Base)

RECURSIVE BigToNat(_)
BigToNat(a) ==
    IF a = <<>> THEN 0 ELSE Head(a) + Base * BigToNat(Tail(a))

RECURSIVE BigTrim(_)
BigTrim(a) ==
    IF a = <<>> THEN <<>>
    ELSE IF a[Len(a)] = 0 THEN BigTrim(SubSeq(a, 1, Len(a) - 1))
    ELSE a

RECURSIVE BigCmpFrom(_, _, _)
BigCmpFrom(a, b, i) ==
    IF i = 0 THEN 0
    ELSE IF a[i] < b[i] THEN -1
    ELSE IF a[i] > b[i] THEN 1
    ELSE BigCmpFrom(a, b, i - 1)

\* -1, 0 or 1 as a < b, a = b, a > b.
BigCmp(a, b) ==
    IF Len(a) < Len(b) THEN -1
    ELSE IF Len(a) > Len(b) THEN 1
    ELSE BigCmpFrom(a, b, Len(a))

RECURSIVE BigAddC(_, _, _)
BigAddC(a, b, c) ==
    IF a = <<>> /\ b = <<>> THEN (IF c = 0 THEN <<>> ELSE <<c>>)
    ELSE LET x == (IF a = <<>> THEN 0 ELSE Head(a))
                  + (IF b = <<>> THEN 0 ELSE Head(b)) + c
         IN  <<x % Base>> \o BigAddC(IF a = <<>> THEN <<>> ELSE Tail(a),
                                     IF b = <<>> THEN <<>> ELSE Tail(b),
                                     x \div Base)

BigAdd(a, b) == BigAddC(a, b, 0)

RECURSIVE BigSubB(_, _, _)
BigSubB(a, b, borrow) ==
    IF a = <<>> THEN <<>>
    ELSE LET x == Head(a) - (IF b = <<>> THEN 0 ELSE Head(b)) - borrow
         IN  <<IF x < 0 THEN x + Base ELSE x>>
             \o BigSubB(Tail(a), IF b = <<>> THEN <<>> ELSE Tail(b),
                        IF x < 0 THEN 1 ELSE 0)

\* a - b, for a >= b.
BigSub(a, b) == BigTrim(BigSubB(a, b, 0))

RECURSIVE BigMulC(_, _, _)
BigMulC(a, k, c) ==
    IF a = <<>> THEN (IF c = 0 THEN <<>> ELSE <<c>>)
    ELSE LET x == Head(a) * k + c
         IN  <<x % Base>> \o BigMulC(Tail(a), k, x \div Base)

\* a * k, for a limb-sized k.
BigMulSmall(a, k) == IF k = 0 THEN <<>> ELSE BigMulC(a, k, 0)

BigShiftLimb(a) == IF a = <<>> THEN <<>> ELSE <<0>> \o a

RECURSIVE BigMul(_, _)
BigMul(a, b) ==
    IF b = <<>> THEN <<>>
    ELSE BigAdd(BigMulSmall(a, Head(b)), BigShiftLimb(BigMul(a, Tail(b))))

RECURSIVE BigDivQ(_, _, _, _)
BigDivQ(a, k, i, r) ==
    IF i = 0 THEN <<>>
    ELSE LET x == r * Base + a[i]
         IN  BigDivQ(a, k, i - 1, x % k) \o <<x \div k>>

\* floor(a / k), for a limb-sized k > 0.
BigDivSmall(a, k) == BigTrim(BigDivQ(a, k, Len(a), 0))

RECURSIVE BigZeros(_)
BigZeros(n) == IF n = 0 THEN <<>> ELSE <<0>> \o BigZeros(n - 1)

\* a * 2^n.
BigShl(a, n) ==
    IF a = <<>> THEN <<>>
    ELSE BigZeros(n \div LimbBits) \o BigMulSmall(a, 2 ^ (n % LimbBits))

\* floor(a / 2^n).
BigShr(a, n) ==
    IF n \div LimbBits >= Len(a) THEN <<>>
    ELSE BigDivSmall(SubSeq(a, n \div LimbBits + 1, Len(a)), 2 ^ (n % LimbBits))

RECURSIVE BitLenSmall(_)
BitLenSmall(x) == IF x = 0 THEN 0 ELSE 1 + BitLenSmall(x \div 2)

BigBitLen(a) ==
    IF a = <<>> THEN 0 ELSE LimbBits * (Len(a) - 1) + BitLenSmall(a[Len(a)])

\* Bit i of a (bit 0 is the lowest).
BigBit(a, i) ==
    IF i \div LimbBits >= Len(a) THEN 0
    ELSE (a[i \div LimbBits + 1] \div (2 ^ (i % LimbBits))) % 2

\* a mod 2^n # 0.
BigLowBitsSet(a, n) == BigShl(BigShr(a, n), n) # a

(***************************************************************************)
(* f64.  A value is NaN, +infinity, or a finite non-negative number       *)
(* m * 2^e whose significand m is 0 or has exactly SigBits bits.  The     *)
(* program never forms a negative, subnormal or overflowing f64.          *)
(***************************************************************************)
SigBits == 53

F64NaN == [cls |-> "nan", m |-> <<>>, e |-> 0]

F64Inf == [cls |-> "inf", m |-> <<>>, e |-> 0]

F64Zero == [cls |-> "num", m |-> <<>>, e |-> 0]

\* The f64 nearest to (m + f) * 2^e, where 0 <= f < 1 and sticky says f > 0;
\* ties go to the even significand.
RoundToF64(m, e, sticky) ==
    LET n == BigBitLen(m)
    IN  IF m = <<>> THEN F64Zero
        ELSE IF n <= SigBits
        THEN [cls |-> "num", m |-> BigShl(m, SigBits - n), e |-> e - (SigBits - n)]
        ELSE LET s    == n - SigBits
                 q    == BigShr(m, s)
                 half == BigBit(m, s - 1) = 1
                 rest == sticky \/ BigLowBitsSet(m, s - 1)
                 up   == half /\ (rest \/ BigBit(q, 0) = 1)
                 q1   == IF up THEN BigAdd(q, <<1>>) ELSE q
             IN  IF BigBitLen(q1) > SigBits
                 THEN [cls |-> "num", m |-> BigShr(q1, 1), e |-> e + s + 1]
                 ELSE [cls |-> "num", m |-> q1, e |-> e + s]

\* `n as f64` for an unsigned integer n.
F64FromInt(n) == RoundToF64(BigFromNat(n), 0, FALSE)

F64Add(a, b) ==
    IF a.cls = "nan" \/ b.cls = "nan" THEN F64NaN
    ELSE IF a.cls = "inf" \/ b.cls = "inf" THEN F64Inf
    ELSE IF a.m = <<>> THEN b
    ELSE IF b.m = <<>> THEN a
    ELSE LET e == IF a.e < b.e THEN a.e ELSE b.e
         IN  RoundToF64(BigAdd(BigShl(a.m, a.e - e), BigShl(b.m, b.e - e)), e, FALSE)

F64Mul(a, b) ==
    IF a.cls = "nan" \/ b.cls = "nan" THEN F64NaN
    ELSE IF a.cls = "inf" \/ b.cls = "inf"
    THEN (IF (a.cls = "num" /\ a.m = <<>>) \/ (b.cls = "num" /\ b.m = <<>>)
          THEN F64NaN ELSE F64Inf)
    ELSE RoundToF64(BigMul(a.m, b.m), a.e + b.e, FALSE)

\* One step of restoring division by d: the next quotient bit of st.rem / d.
DivStep(st, d) ==
    LET r2 == BigMulSmall(st.rem, 2)
        ge == BigCmp(r2, d) >= 0
    IN  [q   |-> BigAdd(BigMulSmall(st.q, 2), IF ge THEN <<1>> ELSE <<>>),
         rem |-> IF ge THEN BigSub(r2, d) ELSE r2]

\* k steps of DivStep.  A zero remainder leaves only zero bits; the steps are
\* split in halves, and the test of st.rem evaluates the first half before the
\* second starts, which keeps the evaluation shallow.
RECURSIVE DivBits(_, _, _)
DivBits(st, d, k) ==
    IF st.rem = <<>> THEN [q |-> BigShl(st.q, k), rem |-> <<>>]
    ELSE IF k = 0 THEN st
    ELSE IF k = 1 THEN DivStep(st, d)
    ELSE DivBits(DivBits(st, d, k \div 2), d, k - k \div 2)

GuardBits == SigBits + 2

F64Div(a, b) ==
    IF a.cls = "nan" \/ b.cls = "nan" THEN F64NaN
    ELSE IF a.cls = "inf" THEN (IF b.cls = "inf" THEN F64NaN ELSE F64Inf)
    ELSE IF b.cls = "inf" THEN F64Zero
    ELSE IF b.m = <<>> THEN (IF a.m = <<>> THEN F64NaN ELSE F64Inf)
    ELSE IF a.m = <<>> THEN F64Zero
    ELSE LET ge == BigCmp(a.m, b.m) >= 0
             r  == DivBits([q   |-> IF ge THEN <<1>> ELSE <<>>,
                            rem |-> IF ge THEN BigSub(a.m, b.m) ELSE a.m],
                           b.m, GuardBits)
         IN  RoundToF64(r.q, a.e - b.e - GuardBits, r.rem # <<>>)

\* The model's stand-in for usize::MAX: every index the program forms from it
\* is at once clamped to at most 49 or len - 1.
UsizeSaturated == 2 ^ 30

\* `x as usize`: truncation toward zero; NaN becomes 0 and values beyond the
\* range saturate (the float-to-integer cast of the Rust reference).
F64ToUsize(x) ==
    IF x.cls = "nan" THEN 0
    ELSE IF x.cls = "inf" THEN UsizeSaturated
    ELSE IF x.m = <<>> THEN 0
    ELSE IF x.e >= 0
    THEN (IF BigBitLen(x.m) + x.e > 30 THEN UsizeSaturated
          ELSE BigToNat(BigShl(x.m, x.e)))
    ELSE IF BigBitLen(x.m) + x.e > 30 THEN UsizeSaturated
    ELSE BigToNat(BigShr(x.m, 0 - x.e))

(***************************************************************************)
(* std::time::Duration: whole seconds and nanoseconds below one second,   *)
(* ordered by seconds, then nanoseconds.                                  *)
(***************************************************************************)
NANOS_PER_SEC == 1000 * 1000 * 1000

Duration(secs, nanos) == [secs |-> secs, nanos |-> nanos]

DurationZero == Duration(0, 0)

DurationLess(a, b) ==
    a.secs < b.secs \/ (a.secs = b.secs /\ a.nanos < b.nanos)

\* Duration + Duration.
DurationAdd(a, b) ==
    LET nanos == a.nanos + b.nanos
    IN  IF nanos >= NANOS_PER_SEC
        THEN Duration(a.secs + b.secs + 1, nanos - NANOS_PER_SEC)
        ELSE Duration(a.secs + b.secs, nanos)

\* Duration / u32: the seconds divide, the remainder carries into the
\* nanoseconds.  carry * NANOS_PER_SEC / rhs is formed as
\* carry * (NANOS_PER_SEC / rhs) + carry * (NANOS_PER_SEC % rhs) / rhs, the
\* same number without exceeding 32-bit integers.
DurationDiv(d, rhs) ==
    LET secs        == d.secs \div rhs
        carry       == d.secs - secs * rhs
        extra_nanos == carry * (NANOS_PER_SEC \div rhs)
                       + (carry * (NANOS_PER_SEC % rhs)) \div rhs
    IN  Duration(secs, d.nanos \div rhs + extra_nanos)

\* The sequence s with every element evaluated (the value is s itself).
Evaluated(s) == SubSeq(s, 1, Len(s))

\* iter().sum() over s[lo..hi], added in halves; the test evaluates acc first.
RECURSIVE DurationSumFrom(_, _, _, _)
DurationSumFrom(acc, s, lo, hi) ==
    IF acc.secs < 0 \/ lo > hi THEN acc
    ELSE IF lo = hi THEN DurationAdd(acc, s[lo])
    ELSE DurationSumFrom(DurationSumFrom(acc, s, lo, (lo + hi) \div 2),
                         s, (lo + hi) \div 2 + 1, hi)

DurationSum(s) == DurationSumFrom(DurationZero, s, 1, Len(s))

\* The stable merge of two ascending sequences: a[i] lands after the i - 1
\* elements of a before it and the elements of b strictly below it.
Merge(a, b) ==
    LET la   == Len(a)
        lb   == Len(b)
        posA == Evaluated([i \in 1..la |->
                    i + Cardinality({j \in 1..lb : DurationLess(b[j], a[i])})])
    IN  Evaluated([k \in 1..(la + lb) |->
            LET t == Cardinality({i \in 1..la : posA[i] <= k})
            IN  IF t > 0 /\ posA[t] = k THEN a[t] ELSE b[k - t]])

\* sort(): a stable merge sort; the result is s[lo..hi] in ascending order.
RECURSIVE SortRange(_, _, _)
SortRange(s, lo, hi) ==
    IF lo > hi THEN <<>>
    ELSE IF lo = hi THEN <<s[lo]>>
    ELSE Merge(SortRange(s, lo, (lo + hi) \div 2),
               SortRange(s, (lo + hi) \div 2 + 1, hi))

Sort(s) == SortRange(s, 1, Len(s))

Min(a, b) == IF a < b THEN a ELSE b

Max(a, b) == IF a > b THEN a ELSE b

\* Rust indexes from 0: s[i].
At(s, i) == s[i + 1]

(***************************************************************************)
(* src/src/stats.rs                                                       *)
(***************************************************************************)
StatusOk == 200

Fact(status, duration) ==
    [status |-> status, duration |-> duration, content_length |-> 0]

Durations(fs) == [i \in 1..Len(fs) |-> fs[i].duration]

Repeat(x, n) == [i \in 1..n |-> x]

F64Thousand == F64FromInt(1000)

F64Million == F64FromInt(1000000)

F64Fifty == F64FromInt(50)

to_ms(d) ==
    F64Add(F64Mul(F64FromInt(d.secs), F64Thousand),
           F64Div(F64FromInt(d.nanos), F64Million))

StatsZero ==
    [average           |-> DurationZero,
     median            |-> DurationZero,
     max               |-> DurationZero,
     min               |-> DurationZero,
     count             |-> 0,
     percentiles       |-> Repeat(DurationZero, 100),
     latency_histogram |-> Repeat(0, 0)]

\* A variant of BucketIndex whose cast sends NaN to the last bucket.
BucketIndexNaNLast(duration, bin_size) ==
    LET q == F64Div(to_ms(duration), bin_size)
    IN  IF q.cls = "nan" THEN 49 ELSE Min(F64ToUsize(q), 49)

\* The bucket the histogram loop increments for one duration.
BucketIndex(duration, bin_size) ==
    Min(F64ToUsize(F64Div(to_ms(duration), bin_size)), 49)

\* The histogram loop over sorted[lo..hi], run in halves; the test evaluates
\* the histogram so far first.
RECURSIVE HistogramFrom(_, _, _, _, _)
HistogramFrom(hist, sorted, bin_size, lo, hi) ==
    IF Len(hist) = 0 \/ lo > hi THEN hist
    ELSE IF lo = hi
    THEN [hist EXCEPT ![BucketIndex(sorted[lo], bin_size) + 1] = @ + 1]
    ELSE HistogramFrom(
             HistogramFrom(hist, sorted, bin_size, lo, (lo + hi) \div 2),
             sorted, bin_size, (lo + hi) \div 2 + 1, hi)

\* n / 50 as the closure forms it, for n in 0..49.
PercentileFraction == [n \in 0..49 |-> F64Div(F64FromInt(n), F64Fifty)]

\* The index the percentile closure reads for n.
PercentileIndex(n, len) ==
    LET index == F64ToUsize(F64Mul(PercentileFraction[n], F64FromInt(len)))
    IN  Min(Max(index, 0), len - 1)

StatsFromFacts(fs) ==
    IF Len(fs) = 0 THEN StatsZero
    ELSE LET count    == Len(fs)
             sum      == DurationSum(Durations(fs))
             average  == DurationDiv(sum, count)
             sorted   == Sort(Durations(fs))
             mid      == Len(sorted) \div 2
             median   == IF Len(fs) % 2 = 0
                         THEN DurationDiv(DurationAdd(At(sorted, mid - 1),
                                                      At(sorted, mid)), 2)
                         ELSE At(sorted, mid)
             min      == At(sorted, 0)
             max      == At(sorted, Len(sorted) - 1)
             bin_size == F64Div(to_ms(max), F64Fifty)
             latency_histogram ==
                 HistogramFrom(Repeat(0, 50), sorted, bin_size, 1, Len(sorted))
             percentiles ==
                 [i \in 1..50 |-> At(sorted, PercentileIndex(i - 1, Len(sorted)))]
         IN  [average           |-> average,
              median            |-> median,
              max               |-> max,
              min               |-> min,
              count             |-> count,
              percentiles       |-> percentiles,
              latency_histogram |-> latency_histogram]

(***************************************************************************)
(* src/src/main.rs: the Summary the binary computes and prints.           *)
(***************************************************************************)
MainZero ==
    [average |-> DurationZero, median |-> DurationZero, count |-> 0]

MainFromFacts(fs) ==
    IF Len(fs) = 0 THEN MainZero
    ELSE LET count   == Len(fs)
             sum     == DurationSum(Durations(fs))
             average == DurationDiv(sum, count)
             sorted  == Sort(Durations(fs))
             mid     == Len(fs) \div 2
             median  == IF Len(fs) % 2 = 0
                        THEN DurationDiv(DurationAdd(At(fs, mid - 1).duration,
                                                     At(fs, mid).duration), 2)
                        ELSE At(fs, mid).duration
         IN  [average |-> average, median |-> median, count |-> count]

(***************************************************************************)
(* src/src/content_length.rs                                              *)
(***************************************************************************)
KILO == 1024

MEGS == 1024 * 1024

GIGS == 1024 * 1024 * 1024

\* "{:0.2}" of a finite f64: the hundredths of its exact value, rounded to the
\* nearest, ties to even.
FormatHundredths(x) ==
    IF x.m = <<>> THEN 0
    ELSE LET m100 == BigMulSmall(x.m, 100)
         IN  IF x.e >= 0 THEN BigToNat(BigShl(m100, x.e))
             ELSE LET s    == 0 - x.e
                      q    == BigShr(m100, s)
                      half == BigBit(m100, s - 1) = 1
                      rest == BigLowBitsSet(m100, s - 1)
                      up   == half /\ (rest \/ BigBit(q, 0) = 1)
                  IN  BigToNat(q) + (IF up THEN 1 ELSE 0)

\* What Display writes: the digits, how many of them are decimals, the unit.
Scaled(bytes, size, unit) ==
    [digits   |-> FormatHundredths(F64Div(F64FromInt(bytes), F64FromInt(size))),
     decimals |-> 2,
     unit     |-> unit]

\* A variant of ContentLengthFmt whose thresholds are inclusive.
ContentLengthFmtInclusive(bytes) ==
    IF bytes >= GIGS THEN Scaled(bytes, GIGS, "GB")
    ELSE IF bytes >= MEGS THEN Scaled(bytes, MEGS, "MB")
    ELSE IF bytes >= KILO THEN Scaled(bytes, KILO, "KB")
    ELSE [digits |-> bytes, decimals |-> 0, unit |-> "B"]

ContentLengthFmt(bytes) ==
    IF bytes > GIGS THEN Scaled(bytes, GIGS, "GB")
    ELSE IF bytes > MEGS THEN Scaled(bytes, MEGS, "MB")
    ELSE IF bytes > KILO THEN Scaled(bytes, KILO, "KB")
    ELSE [digits |-> bytes, decimals |-> 0, unit |-> "B"]

ContentLengthAdd(a, b) == a + b

(***************************************************************************)
(* Bounds and sampled inputs.                                             *)
(***************************************************************************)
MaxThreads == 2

MaxRequests == 4

MaxFacts == 3

MaxDelta == 2

MaxAdds == 1

\* The largest byte count the model forms (ContentLength holds a u64).
MaxBytes == (GIGS - 1) + GIGS

\* Elapsed times a request may take: zero, two sub-second times of which one
\* is half the other, and one with seconds and an odd nanosecond count.
DurationSamples ==
    {Duration(0, 0), Duration(0, 7000000), Duration(0, 14000000),
     Duration(1, 999999999)}

\* What the dispatcher's requests may measure and be answered with.
ElapsedSamples == {Duration(0, 7000000), Duration(1, 999999999)}

Statuses == {StatusOk, 500}

SampleFacts == {Fact(StatusOk, d) : d \in DurationSamples}

\* The inputs of the tests of stats.rs: durations 0 s, 1 s, ..., (n - 1) s.
RampSmall == 50

RampLarge == 500

Ramp(n) == [i \in 1..n |-> Fact(StatusOk, Duration(i - 1, 0))]

StatInputs ==
    {Ramp(RampSmall), Ramp(RampLarge)}
    \cup UNION {[1..n -> SampleFacts] : n \in 0..MaxFacts}

ByteSamples ==
    {0, 500, 500000, 500000000, 2000000000}
    \cup {t + d : t \in {KILO, MEGS, GIGS}, d \in (0 - MaxDelta)..MaxDelta}

(***************************************************************************)
(* State.                                                                 *)
(***************************************************************************)
VARIABLES
    threads,      \* -c: the number of workers
    requests,     \* -n: the total number of requests
    main_pc,      \* where main is: "spawn", "join", "exited", "panicked"
    handles,      \* how many workers main has spawned
    w_pc,         \* per worker: "unspawned", "warmup", "requests", "returned",
                  \* "panicked" (an expect failed)
    w_warm,       \* per worker: the outcomes of its warm-up requests
    w_issued,     \* per worker: how many timed requests it has issued
    w_facts,      \* per worker: the Facts its map has collected
    late,         \* requests issued while some worker had already failed
    completed,    \* the answered timed requests in the order they completed,
                  \* each with the worker that issued it
    joined,       \* facts: the Vec<Fact> of every worker joined so far
    flat_facts,   \* flat_facts
    printed,      \* <<>>, or <<the Summary written to stdout>>
    input,        \* the Fact slice given to from_facts
    stats,        \* <<>>, or <<stats.rs Summary::from_facts(input)>>
    main_stats,   \* <<>>, or <<main.rs Summary::from_facts(input)>>
    cl,           \* a ContentLength's bytes
    adds,         \* how many additions formed cl
    shown         \* <<>>, or <<what Display wrote for cl>>

runVars ==
    <<threads, requests, main_pc, handles, w_pc, w_warm, w_issued, w_facts,
      late, completed, joined, flat_facts, printed>>

statVars == <<input, stats, main_stats>>

clVars == <<cl, adds, shown>>

vars == <<runVars, statVars, clVars>>

RunIdle ==
    /\ threads = 0
    /\ requests = 0
    /\ main_pc = "exited"
    /\ handles = 0
    /\ w_pc = <<>>
    /\ w_warm = <<>>
    /\ w_issued = <<>>
    /\ w_facts = <<>>
    /\ late = 0
    /\ completed = <<>>
    /\ joined = <<>>
    /\ flat_facts = <<>>
    /\ printed = <<>>

StatIdle == input = <<>> /\ stats = <<>> /\ main_stats = <<>>

ClIdle == cl = 0 /\ adds = 0 /\ shown = <<>>

(***************************************************************************)
(* src/src/main.rs: main and make_requests.                               *)
(***************************************************************************)
Workers == 1..threads

\* A variant of Share that rounds the quotient up.
ShareRoundedUp == (requests + threads - 1) \div threads

\* requests / threads, the number_of_requests of every worker.
Share == requests \div threads

\* Threads run while the process does: it ends when main returns or panics.
ProcessAlive == main_pc \in {"spawn", "join"}

AnyFailed == \E v \in Workers : w_pc[v] = "panicked"

Init ==
    /\ threads \in 0..MaxThreads
    /\ requests \in 0..MaxRequests
    /\ main_pc = "spawn"
    /\ handles = 0
    /\ w_pc = [w \in Workers |-> "unspawned"]
    /\ w_warm = [w \in Workers |-> <<>>]
    /\ w_issued = [w \in Workers |-> 0]
    /\ w_facts = [w \in Workers |-> <<>>]
    /\ late = 0
    /\ completed = <<>>
    /\ joined = <<>>
    /\ flat_facts = <<>>
    /\ printed = <<>>
    /\ StatIdle
    /\ ClIdle

\* main: thread::spawn of the next worker.
Spawn ==
    /\ main_pc = "spawn"
    /\ handles < threads
    /\ handles' = handles + 1
    /\ w_pc' = [w_pc EXCEPT ![handles + 1] = "warmup"]
    /\ UNCHANGED <<threads, requests, main_pc, w_warm, w_issued, w_facts,
                   late, completed, joined, flat_facts, printed>>
    /\ UNCHANGED <<statVars, clVars>>

\* main: every handle is collected; the joins start.
StartJoin ==
    /\ main_pc = "spawn"
    /\ handles = threads
    /\ main_pc' = "join"
    /\ UNCHANGED <<threads, requests, handles, w_pc, w_warm, w_issued,
                   w_facts, late, completed, joined, flat_facts, printed>>
    /\ UNCHANGED <<statVars, clVars>>

\* A variant of Warmup that sends nothing when the worker has no request to
\* time.
WarmupUnlessIdle(w, ok) ==
    /\ ProcessAlive
    /\ w_pc[w] = "warmup"
    /\ IF requests \div threads = 0
       THEN /\ w_pc' = [w_pc EXCEPT ![w] = "requests"]
            /\ UNCHANGED <<w_warm, late>>
       ELSE /\ w_warm' = [w_warm EXCEPT
                             ![w] = Append(@, IF ok THEN "ok" ELSE "err")]
            /\ w_pc' = [w_pc EXCEPT ![w] = IF ok THEN "requests" ELSE "panicked"]
            /\ late' = late + (IF AnyFailed THEN 1 ELSE 0)
    /\ UNCHANGED <<threads, requests, main_pc, handles, w_issued, w_facts,
                   completed, joined, flat_facts, printed>>
    /\ UNCHANGED <<statVars, clVars>>

\* make_requests: the warm-up request; expect panics the worker on an error.
Warmup(w, ok) ==
    /\ ProcessAlive
    /\ w_pc[w] = "warmup"
    /\ w_warm' = [w_warm EXCEPT ![w] = Append(@, IF ok THEN "ok" ELSE "err")]
    /\ w_pc' = [w_pc EXCEPT ![w] = IF ok THEN "requests" ELSE "panicked"]
    /\ late' = late + (IF AnyFailed THEN 1 ELSE 0)
    /\ UNCHANGED <<threads, requests, main_pc, handles, w_issued, w_facts,
                   completed, joined, flat_facts, printed>>
    /\ UNCHANGED <<statVars, clVars>>

\* make_requests: one timed request that is answered; its Fact is collected.
Request(w, status, duration) ==
    /\ ProcessAlive
    /\ w_pc[w] = "requests"
    /\ w_issued[w] < Share
    /\ w_issued' = [w_issued EXCEPT ![w] = @ + 1]
    /\ w_facts' = [w_facts EXCEPT ![w] = Append(@, Fact(status, duration))]
    /\ late' = late + (IF AnyFailed THEN 1 ELSE 0)
    /\ completed' = Append(completed, [worker |-> w,
                                        fact   |-> Fact(status, duration)])
    /\ UNCHANGED <<threads, requests, main_pc, handles, w_pc, w_warm, joined,
                   flat_facts, printed>>
    /\ UNCHANGED <<statVars, clVars>>

\* make_requests: one timed request that fails; expect panics the worker and
\* the unwinding drops what it had collected.
RequestFails(w) ==
    /\ ProcessAlive
    /\ w_pc[w] = "requests"
    /\ w_issued[w] < Share
    /\ w_issued' = [w_issued EXCEPT ![w] = @ + 1]
    /\ w_facts' = [w_facts EXCEPT ![w] = <<>>]
    /\ w_pc' = [w_pc EXCEPT ![w] = "panicked"]
    /\ late' = late + (IF AnyFailed THEN 1 ELSE 0)
    /\ UNCHANGED <<threads, requests, main_pc, handles, w_warm, completed,
                   joined, flat_facts, printed>>
    /\ UNCHANGED <<statVars, clVars>>

\* make_requests: the range is exhausted; collect returns the Vec<Fact>.
Return(w) ==
    /\ ProcessAlive
    /\ w_pc[w] = "requests"
    /\ w_issued[w] = Share
    /\ w_pc' = [w_pc EXCEPT ![w] = "returned"]
    /\ UNCHANGED <<threads, requests, main_pc, handles, w_warm, w_issued,
                   w_facts, late, completed, joined, flat_facts, printed>>
    /\ UNCHANGED <<statVars, clVars>>

\* A variant of Join that takes a panicked worker's result to be an empty Vec.
JoinIgnoringPanics ==
    /\ main_pc = "join"
    /\ Len(joined) < threads
    /\ LET w == Len(joined) + 1
       IN  \/ /\ w_pc[w] = "returned"
              /\ joined' = Append(joined, w_facts[w])
           \/ /\ w_pc[w] = "panicked"
              /\ joined' = Append(joined, <<>>)
    /\ UNCHANGED <<threads, requests, main_pc, handles, w_pc, w_warm, w_issued,
                   w_facts, late, completed, flat_facts, printed>>
    /\ UNCHANGED <<statVars, clVars>>

\* A variant of Join in which main panics as soon as any worker has panicked,
\* whatever its place in the spawn order.
JoinFirstFailure ==
    /\ main_pc = "join"
    /\ Len(joined) < threads
    /\ LET w == Len(joined) + 1
       IN  \/ /\ ~AnyFailed
              /\ w_pc[w] = "returned"
              /\ joined' = Append(joined, w_facts[w])
              /\ UNCHANGED main_pc
           \/ /\ AnyFailed
              /\ main_pc' = "panicked"
              /\ UNCHANGED joined
    /\ UNCHANGED <<threads, requests, handles, w_pc, w_warm, w_issued,
                   w_facts, late, completed, flat_facts, printed>>
    /\ UNCHANGED <<statVars, clVars>>

\* main: h.join().unwrap() of the next handle, in spawn order.  It blocks
\* until that worker ends; a panicked worker makes unwrap panic main, and the
\* process ends whatever the other threads are doing.
Join ==
    /\ main_pc = "join"
    /\ Len(joined) < threads
    /\ LET w == Len(joined) + 1
       IN  \/ /\ w_pc[w] = "returned"
              /\ joined' = Append(joined, w_facts[w])
              /\ UNCHANGED main_pc
           \/ /\ w_pc[w] = "panicked"
              /\ main_pc' = "panicked"
              /\ UNCHANGED joined
    /\ UNCHANGED <<threads, requests, handles, w_pc, w_warm, w_issued,
                   w_facts, late, completed, flat_facts, printed>>
    /\ UNCHANGED <<statVars, clVars>>

\* flat_facts.extend(facts) for every joined Vec, in order.
RECURSIVE Flatten(_)
Flatten(vs) == IF vs = <<>> THEN <<>> ELSE Head(vs) \o Flatten(Tail(vs))

\* A variant of Report that summarises the Facts in the order their requests
\* completed.
ReportInCompletionOrder ==
    /\ main_pc = "join"
    /\ Len(joined) = threads
    /\ flat_facts' = [i \in 1..Len(completed) |-> completed[i].fact]
    /\ printed' = <<MainFromFacts(flat_facts')>>
    /\ main_pc' = "exited"
    /\ UNCHANGED <<threads, requests, handles, w_pc, w_warm, w_issued,
                   w_facts, late, completed, joined>>
    /\ UNCHANGED <<statVars, clVars>>

\* main: every worker is joined; the Facts are flattened, the Summary printed.
Report ==
    /\ main_pc = "join"
    /\ Len(joined) = threads
    /\ flat_facts' = Flatten(joined)
    /\ printed' = <<MainFromFacts(flat_facts')>>
    /\ main_pc' = "exited"
    /\ UNCHANGED <<threads, requests, handles, w_pc, w_warm, w_issued,
                   w_facts, late, completed, joined>>
    /\ UNCHANGED <<statVars, clVars>>

Next ==
    \/ Spawn
    \/ StartJoin
    \/ \E w \in Workers, ok \in BOOLEAN : Warmup(w, ok)
    \/ \E w \in Workers, st \in Statuses, d \in ElapsedSamples : Request(w, st, d)
    \/ \E w \in Workers : RequestFails(w)
    \/ \E w \in Workers : Return(w)
    \/ Join
    \/ Report

Spec == Init /\ [][Next]_vars

(***************************************************************************)
(* Summary::from_facts of both files applied to sampled Fact slices.      *)
(***************************************************************************)
InitStats ==
    /\ RunIdle
    /\ ClIdle
    /\ input \in StatInputs
    /\ stats = <<>>
    /\ main_stats = <<>>

Summarize ==
    /\ stats = <<>>
    /\ stats' = <<StatsFromFacts(input)>>
    /\ UNCHANGED <<input, main_stats>>
    /\ UNCHANGED <<runVars, clVars>>

SummarizeMain ==
    /\ main_stats = <<>>
    /\ main_stats' = <<MainFromFacts(input)>>
    /\ UNCHANGED <<input, stats>>
    /\ UNCHANGED <<runVars, clVars>>

NextStats == Summarize \/ SummarizeMain

SpecStats == InitStats /\ [][NextStats]_vars

(***************************************************************************)
(* ContentLength: new, add, Display.                                      *)
(***************************************************************************)
InitDisplay ==
    /\ RunIdle
    /\ StatIdle
    /\ cl \in ByteSamples
    /\ adds = 0
    /\ shown = <<>>

Add(rhs) ==
    /\ adds < MaxAdds
    /\ rhs <= MaxBytes - cl
    /\ cl' = ContentLengthAdd(cl, rhs)
    /\ adds' = adds + 1
    /\ shown' = <<>>
    /\ UNCHANGED <<runVars, statVars>>

Display ==
    /\ shown = <<>>
    /\ shown' = <<ContentLengthFmt(cl)>>
    /\ UNCHANGED <<cl, adds>>
    /\ UNCHANGED <<runVars, statVars>>

NextDisplay == (\E rhs \in ByteSamples : Add(rhs)) \/ Display

SpecDisplay == InitDisplay /\ [][NextDisplay]_vars

(***************************************************************************)
(* Properties.                                                            *)
(***************************************************************************)

\* C1: percentiles and latency_histogram of a Summary always have exactly 50
\* entries, the Summary of an empty Fact sequence included.
C1_FiftyEntries ==
    stats # <<>> =>
        /\ Len(stats[1].percentiles) = 50
        /\ Len(stats[1].latency_histogram) = 50

\* The median the specification describes: the middle element of the
\* durations sorted ascending for an odd count, the truncated half of the sum
\* of the two middle elements for an even count.
MedianOfSorted(fs) ==
    LET sorted == Sort(Durations(fs))
        n      == Len(sorted)
        half(d) == Duration(d.secs \div 2,
                            ((d.secs % 2) * NANOS_PER_SEC + d.nanos) \div 2)
    IN  IF n % 2 = 1 THEN sorted[(n + 1) \div 2]
        ELSE half(DurationAdd(sorted[n \div 2], sorted[n \div 2 + 1]))

C3_FloorShare ==
    threads >= 1 =>
        /\ \A w \in Workers :
              /\ w_issued[w] <= requests \div threads
              /\ w_pc[w] = "returned" =>
                    /\ w_issued[w] = requests \div threads
                    /\ Len(w_facts[w]) = requests \div threads
        /\ main_pc = "exited" =>
              /\ \A w \in Workers : w_pc[w] = "returned"
              /\ Len(flat_facts) = threads * (requests \div threads)
              /\ printed[1].count = threads * (requests \div threads)

\* Two workers shared three requests: each timed one, and two Facts were
\* summarised.
C3_Witness ==
    /\ main_pc = "exited"
    /\ threads = 2
    /\ requests = 3
    /\ Len(flat_facts) = 2
    /\ printed # <<>>

\* C4: a Summary is printed only when every warm-up and every timed request
\* of every worker succeeded; after any failure none is printed.
C4_ReportOnlyWithoutFailure ==
    /\ AnyFailed => printed = <<>>
    /\ printed # <<>> =>
          \A w \in Workers :
              /\ w_pc[w] = "returned"
              /\ w_warm[w] = <<"ok">>
              /\ Len(w_facts[w]) = w_issued[w]

\* The second worker failed after the first had returned its whole share; the
\* run ended and printed nothing.
C4_Witness ==
    /\ threads = 2
    /\ w_pc[1] = "returned"
    /\ w_facts[1] # <<>>
    /\ w_pc[2] = "panicked"
    /\ main_pc = "panicked"
    /\ printed = <<>>

\* C5 as stated: once a request of any worker has failed the run is over, so
\* no worker issues a further request, warm-up or timed.
C5_AbortsImmediately ==
    [][AnyFailed => (w_issued' = w_issued /\ w_warm' = w_warm)]_vars

\* C5: a failure is fatal, though not at once.  The worker that failed issues
\* nothing more; main panics only in joining a panicked worker, which it does
\* in spawn order after every worker spawned earlier has returned; until then
\* the other workers go on; once main has panicked nobody issues a request,
\* and after a failure no Summary is printed.
C5_FatalAtJoin ==
    [][/\ \A w \in Workers :
             w_pc[w] = "panicked" =>
                 /\ w_pc'[w] = "panicked"
                 /\ w_issued'[w] = w_issued[w]
                 /\ w_warm'[w] = w_warm[w]
       /\ (main_pc # "panicked" /\ main_pc' = "panicked") =>
             /\ main_pc = "join"
             /\ w_pc[Len(joined) + 1] = "panicked"
             /\ \A v \in 1..Len(joined) : w_pc[v] = "returned"
       /\ main_pc = "panicked" =>
             /\ main_pc' = "panicked"
             /\ w_issued' = w_issued
             /\ w_warm' = w_warm
       /\ AnyFailed => printed' = <<>>
      ]_vars

\* A worker issued a request after another had failed, and the run then ended
\* in main's panic without a Summary.
C5_Witness ==
    /\ late > 0
    /\ main_pc = "panicked"
    /\ printed = <<>>

\* C6: a worker sends exactly one warm-up request, before any timed request
\* and also when its share is zero; the warm-up yields no Fact; a failed
\* warm-up ends the worker before it times anything.
C6_OneWarmupFirst ==
    \A w \in Workers :
        /\ Len(w_warm[w]) <= 1
        /\ Len(w_facts[w]) <= w_issued[w]
        /\ w_pc[w] \in {"unspawned", "warmup"} =>
              (w_warm[w] = <<>> /\ w_issued[w] = 0)
        /\ w_issued[w] > 0 => w_warm[w] = <<"ok">>
        /\ w_pc[w] \in {"requests", "returned"} => w_warm[w] = <<"ok">>
        /\ w_warm[w] = <<"err">> =>
              (w_pc[w] = "panicked" /\ w_issued[w] = 0 /\ w_facts[w] = <<>>)

\* A worker whose share is zero returned an empty Vec after its one warm-up.
C6_Witness ==
    /\ threads = 2
    /\ requests = 1
    /\ w_pc[1] = "returned"
    /\ w_warm[1] = <<"ok">>
    /\ w_issued[1] = 0
    /\ w_facts[1] = <<>>

\* s with its elements at i and i + 1 exchanged.
SwapAt(s, i) == [s EXCEPT ![i] = s[i + 1], ![i + 1] = s[i]]

\* C7: from_facts depends only on the Facts it is given, not on their order:
\* exchanging two neighbours of the input changes neither the Summary of
\* main.rs nor the Summary of stats.rs.
C7_OrderIndependent ==
    (stats # <<>> /\ main_stats # <<>>) =>
        /\ \A i \in 1..(Len(input) - 1) :
              MainFromFacts(SwapAt(input, i)) = main_stats[1]
        /\ \A i \in 1..(Len(input) - 1) :
              StatsFromFacts(SwapAt(input, i)) = stats[1]

\* C8: Display picks the unit by strict comparisons: GB above 1024^3 bytes,
\* MB above 1024^2, KB above 1024, and otherwise the bare integer in B, so a
\* count equal to a threshold is shown in the smaller unit.
C8_StrictThresholds ==
    shown # <<>> =>
        /\ shown[1].unit = "GB" <=> cl > 1024 * 1024 * 1024
        /\ shown[1].unit = "MB" <=>
              (cl > 1024 * 1024 /\ cl <= 1024 * 1024 * 1024)
        /\ shown[1].unit = "KB" <=> (cl > 1024 /\ cl <= 1024 * 1024)
        /\ shown[1].unit = "B" <=> cl <= 1024
        /\ shown[1].unit = "B" =>
              (shown[1].digits = cl /\ shown[1].decimals = 0)
        /\ shown[1].unit # "B" => shown[1].decimals = 2

\* 1024 * 1024 bytes, reached by an addition, are shown as 1024.00 KB.
C8_Witness ==
    /\ adds > 0
    /\ cl = 1024 * 1024
    /\ shown = <<[digits |-> 102400, decimals |-> 2, unit |-> "KB"]>>

\* The largest of the durations ds.
Longest(ds) ==
    CHOOSE d \in {ds[i] : i \in 1..Len(ds)} :
        \A i \in 1..Len(ds) : ~DurationLess(d, ds[i])

\* min(floor(d_ms / (max_ms / 50)), 49), the quotients being those of f64.
BucketOf(d, longest) ==
    LET floor == F64ToUsize(F64Div(to_ms(d), F64Div(to_ms(longest), F64Fifty)))
    IN  IF floor < 49 THEN floor ELSE 49

RECURSIVE SumTo(_, _)
SumTo(h, n) == IF n = 0 THEN 0 ELSE SumTo(h, n - 1) + h[n]

C10_PercentileIndex ==
    (stats # <<>> /\ input # <<>>) =>
        LET sorted == Sort(Durations(input))
            count  == Len(input)
        IN  \A i \in 0..49 :
                stats[1].percentiles[i + 1] =
                    sorted[Min((i * count) \div 50, count - 1) + 1]

\* The Facts of the requests worker w completed, in the order it completed
\* them.
FactsCompletedBy(w) ==
    LET own == SelectSeq(completed, LAMBDA e : e.worker = w)
    IN  [i \in 1..Len(own) |-> own[i].fact]

\* The Facts of workers 1..k: all of worker 1's, then worker 2's, and so on.
RECURSIVE InWorkerOrder(_)
InWorkerOrder(k) ==
    IF k = 0 THEN <<>> ELSE InWorkerOrder(k - 1) \o FactsCompletedBy(k)

\* C11: under every interleaving the Summary is computed only after every
\* worker has completed its whole share; its input is the per-worker Fact
\* sequences concatenated in worker-creation order, each in the order its
\* worker issued the requests, whatever the order in which requests completed
\* across workers; and a worker's sequence holds its own Facts only.
C11_JoinBarrierWorkerOrder ==
    /\ \A w \in Workers :
          w_pc[w] # "panicked" => w_facts[w] = FactsCompletedBy(w)
    /\ \A k \in 1..Len(joined) :
          w_pc[k] = "returned" /\ joined[k] = FactsCompletedBy(k)
    /\ main_pc # "exited" => (flat_facts = <<>> /\ printed = <<>>)
    /\ main_pc = "exited" =>
          /\ \A w \in Workers :
                /\ w_pc[w] = "returned"
                /\ w_issued[w] = requests \div threads
                /\ Len(FactsCompletedBy(w)) = requests \div threads
          /\ flat_facts = InWorkerOrder(threads)
          /\ printed = <<MainFromFacts(InWorkerOrder(threads))>>

\* The first request to complete was the second worker's, both workers
\* completed their shares, and the Summary's input differs from the Facts in
\* completion order.
C11_Witness ==
    /\ main_pc = "exited"
    /\ threads = 2
    /\ requests = 4
    /\ completed[1].worker = 2
    /\ completed[2].worker = 1
    /\ flat_facts # [i \in 1..Len(completed) |-> completed[i].fact]
    /\ printed # <<>>
=============================================================================
